---- MODULE Spec2Model ----
(***************************************************************************)
(* A model of gosync: the debouncing filesystem watcher                    *)
(* (internal/watcher), the directory synchronizer (internal/sync) and the  *)
(* ignore matcher (pkg/utils).                                             *)
(*                                                                         *)
(* Three specifications share the module, one per component:               *)
(*   Spec / FairSpec  the watcher's coalescing loop, its timer, its        *)
(*                    consumer and Close                                   *)
(*   SyncSpec         Manager.SyncDirectory over a small file tree         *)
(*   IgnoreSpec       utils.IsPathExcluded over small paths and patterns   *)
(* Strings are sequences of one-character strings, so that base names,     *)
(* substrings and globs are computed as the code computes them.            *)
(***************************************************************************)
EXTENDS Integers, Sequences, FiniteSets, TLC

(***************************************************************************)
(* Bounds of the watcher model.                                            *)
(***************************************************************************)
MaxTime == 4
MaxDebounce == 2

WPaths == {"p", "q"}
Ops == {"WRITE", "REMOVE"}
Errs == {"overflow"}
NoEvent == [path |-> "", op |-> "", time |-> -1]
NoOut == [delivered |-> FALSE, early |-> FALSE, afterClose |-> FALSE,
          afterErr |-> FALSE]

VARIABLES
    \* ---- ignore matcher: one call of IsPathExcluded
    ipath,          \* its path argument
    ipatterns,      \* its ignorePatterns argument
    iresult,        \* "none" before the call, then "true" or "false" as it
                    \* returned
    \* ---- SyncDirectory: program state
    src,            \* the source tree: relative path -> entry
    dst,            \* the destination tree: relative path -> entry
    patterns,       \* Manager.ignorePatterns
    spc,            \* idle, start, apply, ok (returned nil), err (returned
                    \* an error)
    idx,            \* the apply walk's position among the source entries
    total,          \* Tracker.total
    completed,      \* Tracker.current
    run,            \* which call of SyncDirectory this is
    sperm,          \* source path -> permission bits of its entry
    dperm,          \* destination path -> permission bits of its entry
    umask,          \* the process's file mode creation mask
    \* ---- SyncDirectory: observations
    written,        \* file bytes written to the destination by this call
    touched,        \* destination paths this call created, replaced or wrote
    dstFirst,       \* the destination as the previous call left it
    failed,         \* applying a source entry failed in this call
    \* ---- CalculateBlockChecksum: one call
    cfile,          \* the bytes of the file at filepath
    cblockSize,     \* Calculator.blockSize
    cpc,            \* idle, new (NewCalculator returned), loop, done
                    \* (returned the map), panic (make panicked)
    cpos,           \* the file's read offset
    blockNum,       \* the loop's blockNum
    checksums,      \* the map: block number -> digest
    \* ---- SyncToRemote: one call
    remoteBase,     \* RemoteSync.remoteBase
    rlocal,         \* the local tree: relative path -> entry
    rfs,            \* the remote host: absolute path -> kind of its entry
    rpc,            \* idle, walk, ok (returned nil), err
    ridx,           \* the walk's position among the local entries
    lastMk,         \* the last mkdirAll: its argument and the paths it
                    \* gave to client.Mkdir
    noParent,       \* client.Create failed for want of the parent directory
    \* ---- one Watcher under any calls of Watch and Close
    loops,          \* the processEvents goroutines started so far: whether
                    \* each still runs, and the paths in its eventMap
    mclosed,        \* Close was called
    mpanic,         \* close of the closed done channel panicked
    lastWatch,      \* what the last call of Watch returned: none, ok, err
    memits,         \* per path: events emitted since its burst began
    \* ---- watcher: program state
    now,            \* the clock, in units of one millisecond-tick
    debounceMs,     \* Watcher.debounceMs
    pc,             \* where processEvents is: idle, newTimer, select,
                    \* sendErr, sendEvents, done
    eventMap,       \* processEvents' eventMap: path -> pending FileEvent
    toSend,         \* paths the range loop at line 91 has not sent yet
    errInFlight,    \* the error being sent at line 88
    timerActive,    \* the debounce timer is armed
    timerDeadline,  \* when it expires
    timerC,         \* a value is buffered in timer.C
    closed,         \* Close was called: done and the fsnotify channels closed
    reading,        \* the consumer still receives from Events() and Errors()
    \* ---- watcher: observations
    burstLast,      \* per path: when its last raw notification was received
    burstEmits,     \* per path: events emitted since its burst began
    recvAfterErr,   \* per path: its last raw notification was received
                    \* after an error had been forwarded
    lastOut,        \* about the last ChangeEvent the consumer received:
                    \* whether less than debounceMs had passed since the
                    \* last raw notification, whether Close had been called,
                    \* whether its notification came after an error
    errSeen         \* an error was forwarded to the consumer

wvars == <<now, debounceMs, pc, eventMap, toSend, errInFlight, timerActive,
           timerDeadline, timerC, closed, reading, burstLast,
           burstEmits, recvAfterErr, lastOut, errSeen>>

ivars == <<ipath, ipatterns, iresult>>

svars == <<src, dst, patterns, spc, idx, total, completed, run, written,
           touched, dstFirst, failed, sperm, dperm, umask>>

cvars == <<cfile, cblockSize, cpc, cpos, blockNum, checksums>>

rvars == <<remoteBase, rlocal, rfs, rpc, ridx, lastMk, noParent>>

mvars == <<loops, mclosed, mpanic, lastWatch, memits>>

evars == <<cvars, rvars, mvars>>

vars == <<wvars, svars, ivars, evars>>

EmptyMap == [p \in WPaths |-> NoEvent]

Pending == {p \in WPaths : eventMap[p] # NoEvent}

(* When the loop last received a raw notification, of any path. *)
LastRecv ==
    IF burstLast["p"] >= burstLast["q"] THEN burstLast["p"] ELSE burstLast["q"]

(***************************************************************************)
(* NewWatcher: unbuffered events and errors channels, an open done         *)
(* channel, the configured debounce.                                       *)
(***************************************************************************)
NewWatcher ==
    /\ now = 0
    /\ debounceMs \in 1..MaxDebounce
    /\ pc = "idle"
    /\ eventMap = EmptyMap
    /\ toSend = {}
    /\ errInFlight = ""
    /\ timerActive = FALSE
    /\ timerDeadline = 0
    /\ timerC = FALSE
    /\ closed = FALSE
    /\ reading = TRUE
    /\ burstLast = [p \in WPaths |-> -1]
    /\ burstEmits = [p \in WPaths |-> 0]
    /\ lastOut = NoOut
    /\ errSeen = FALSE
    /\ recvAfterErr = [p \in WPaths |-> FALSE]

hist == <<burstLast, burstEmits, recvAfterErr, lastOut, errSeen>>

(* Time passes; the runtime fires a timer when it expires, not later. *)
Tick ==
    /\ now < MaxTime
    /\ ~(timerActive /\ now >= timerDeadline)
    /\ now' = now + 1
    /\ UNCHANGED <<svars, ivars, evars>>
    /\ UNCHANGED <<debounceMs, pc, eventMap, toSend, errInFlight, timerActive,
                   timerDeadline, timerC, closed, reading, hist>>

(* The runtime fires the expired timer: a non-blocking send on the          *)
(* one-slot channel timer.C.                                                *)
TimerFire ==
    /\ timerActive
    /\ now >= timerDeadline
    /\ timerActive' = FALSE
    /\ timerC' = TRUE
    /\ UNCHANGED <<svars, ivars, evars>>
    /\ UNCHANGED <<now, debounceMs, pc, eventMap, toSend, errInFlight,
                   timerDeadline, closed, reading, hist>>

(* Watch: registers the path and starts processEvents. *)
Watch ==
    /\ pc = "idle"
    /\ ~closed
    /\ pc' = "newTimer"
    /\ UNCHANGED <<svars, ivars, evars>>
    /\ UNCHANGED <<now, debounceMs, eventMap, toSend, errInFlight, timerActive,
                   timerDeadline, timerC, closed, reading, hist>>

(* processEvents, lines 67-68: the empty map and time.NewTimer. *)
LoopNewTimer ==
    /\ pc = "newTimer"
    /\ eventMap' = EmptyMap
    /\ timerActive' = TRUE
    /\ timerDeadline' = now + debounceMs
    /\ pc' = "stopTimer"
    /\ UNCHANGED <<svars, ivars, evars>>
    /\ UNCHANGED <<now, debounceMs, toSend, errInFlight, timerC, closed,
                   reading, hist>>

(* line 69: timer.Stop(), which leaves a value already sent in timer.C. *)
LoopStopTimer ==
    /\ pc = "stopTimer"
    /\ timerActive' = FALSE
    /\ pc' = "select"
    /\ UNCHANGED <<svars, ivars, evars>>
    /\ UNCHANGED <<now, debounceMs, eventMap, toSend, errInFlight,
                   timerDeadline, timerC, closed, reading, hist>>

(* timer.Reset(d) of a module built with go 1.20: the timer is re-armed and *)
(* timer.C is not drained.                                                  *)
TimerReset(c) == c

(* lines 73-82: a raw notification is received, upserted and the timer      *)
(* reset.                                                                   *)
LoopRecvEvent(p, op) ==
    /\ pc = "select"
    /\ ~closed
    /\ eventMap' = [eventMap EXCEPT ![p] = [path |-> p, op |-> op, time |-> now]]
    /\ timerActive' = TRUE
    /\ timerDeadline' = now + debounceMs
    /\ timerC' = TimerReset(timerC)
    /\ burstLast' = [burstLast EXCEPT ![p] = now]
    /\ burstEmits' = [burstEmits EXCEPT ![p] =
                         IF burstLast[p] >= 0 /\ now - burstLast[p] < debounceMs
                         THEN @ ELSE 0]
    /\ UNCHANGED <<svars, ivars, evars>>
    /\ recvAfterErr' = [recvAfterErr EXCEPT ![p] = errSeen]
    /\ UNCHANGED <<now, debounceMs, pc, toSend, errInFlight, closed, reading,
                   lastOut, errSeen>>

(* The error case returning, as the closed-channel case above it does. *)
AfterErr_Returns == "done"

(* Where the loop goes once it received an error from the notification      *)
(* layer: line 88, the blocking send on w.errors.                           *)
AfterErr == "sendErr"

(* lines 84-88: an error of the notification layer is received. *)
LoopRecvErr(e) ==
    /\ pc = "select"
    /\ ~closed
    /\ errInFlight' = e
    /\ pc' = AfterErr
    /\ UNCHANGED <<svars, ivars, evars>>
    /\ UNCHANGED <<now, debounceMs, eventMap, toSend, timerActive,
                   timerDeadline, timerC, closed, reading, hist>>

(* The consumer receives the error: the send at line 88 completes. *)
ConsumerRecvErr ==
    /\ pc = "sendErr"
    /\ reading
    /\ errInFlight' = ""
    /\ pc' = "select"
    /\ errSeen' = TRUE
    /\ UNCHANGED <<svars, ivars, evars>>
    /\ UNCHANGED <<now, debounceMs, eventMap, toSend, timerActive,
                   timerDeadline, timerC, closed, reading, burstLast,
                   burstEmits, recvAfterErr, lastOut>>

(* lines 90-94: a value is taken from timer.C and the pending events are    *)
(* sent one by one; with nothing pending the map is simply renewed.         *)
LoopTimerC ==
    /\ pc = "select"
    /\ timerC
    /\ timerC' = FALSE
    /\ IF Pending = {}
       THEN /\ pc' = "select"
            /\ toSend' = {}
            /\ eventMap' = EmptyMap
       ELSE /\ pc' = "sendEvents"
            /\ toSend' = Pending
            /\ eventMap' = eventMap
    /\ UNCHANGED <<svars, ivars, evars>>
    /\ UNCHANGED <<now, debounceMs, errInFlight, timerActive, timerDeadline,
                   closed, reading, hist>>

(* The consumer receives one pending event (line 92, any order); after the  *)
(* last one the map is renewed (line 94).                                   *)
ConsumerRecvEvent(p) ==
    /\ pc = "sendEvents"
    /\ reading
    /\ p \in toSend
    /\ toSend' = toSend \ {p}
    /\ lastOut' = [delivered |-> TRUE,
                   early |-> now < LastRecv + debounceMs,
                   afterClose |-> closed,
                   afterErr |-> recvAfterErr[p]]
    /\ burstEmits' = [burstEmits EXCEPT ![p] = IF @ < 2 THEN @ + 1 ELSE @]
    /\ IF toSend' = {}
       THEN pc' = "select" /\ eventMap' = EmptyMap
       ELSE pc' = pc /\ eventMap' = eventMap
    /\ UNCHANGED <<svars, ivars, evars>>
    /\ UNCHANGED <<now, debounceMs, errInFlight, timerActive, timerDeadline,
                   timerC, closed, reading, burstLast, recvAfterErr,
                   errSeen>>

(* lines 96-97: the done channel is closed. *)
LoopDone ==
    /\ pc = "select"
    /\ closed
    /\ pc' = "done"
    /\ UNCHANGED <<svars, ivars, evars>>
    /\ UNCHANGED <<now, debounceMs, eventMap, toSend, errInFlight, timerActive,
                   timerDeadline, timerC, closed, reading, hist>>

(* lines 74-76 and 85-87: fsnotify closed its Events and Errors channels. *)
LoopChanClosed ==
    /\ pc = "select"
    /\ closed
    /\ pc' = "done"
    /\ UNCHANGED <<svars, ivars, evars>>
    /\ UNCHANGED <<now, debounceMs, eventMap, toSend, errInFlight, timerActive,
                   timerDeadline, timerC, closed, reading, hist>>

(* Close: close(w.done) and the fsnotify watcher's Close. *)
Close ==
    /\ ~closed
    /\ closed' = TRUE
    /\ UNCHANGED <<svars, ivars, evars>>
    /\ UNCHANGED <<now, debounceMs, pc, eventMap, toSend, errInFlight,
                   timerActive, timerDeadline, timerC, reading, hist>>

(* The caller, having closed the watcher, stops receiving. *)
ConsumerStop ==
    /\ closed
    /\ reading
    /\ reading' = FALSE
    /\ UNCHANGED <<svars, ivars, evars>>
    /\ UNCHANGED <<now, debounceMs, pc, eventMap, toSend, errInFlight,
                   timerActive, timerDeadline, timerC, closed, hist>>

LoopStep ==
    \/ LoopNewTimer
    \/ LoopStopTimer
    \/ \E p \in WPaths, op \in Ops : LoopRecvEvent(p, op)
    \/ \E e \in Errs : LoopRecvErr(e)
    \/ LoopTimerC
    \/ LoopDone
    \/ LoopChanClosed

(***************************************************************************)
(* Strings, as sequences of one-character strings.                         *)
(***************************************************************************)
Sep == "/"

(* strings.HasSuffix *)
HasSuffix(s, suf) ==
    /\ Len(s) >= Len(suf)
    /\ SubSeq(s, Len(s) - Len(suf) + 1, Len(s)) = suf

(* strings.TrimSuffix *)
TrimSuffix(s, suf) ==
    IF HasSuffix(s, suf) THEN SubSeq(s, 1, Len(s) - Len(suf)) ELSE s

(* strings.Contains: sub occurs in s at some offset. *)
Contains(s, sub) ==
    \E i \in 0..(Len(s) - Len(sub)) : SubSeq(s, i + 1, i + Len(sub)) = sub

RECURSIVE StripTrailingSeps(_)
StripTrailingSeps(s) ==
    IF s # <<>> /\ s[Len(s)] = Sep
    THEN StripTrailingSeps(SubSeq(s, 1, Len(s) - 1))
    ELSE s

(* The index of the last separator of s, 0 when it has none. *)
LastSep(s) ==
    LET at == {i \in 1..Len(s) : s[i] = Sep}
    IN  IF at = {} THEN 0 ELSE CHOOSE i \in at : \A j \in at : j <= i

(* filepath.Base *)
Base(path) ==
    IF path = <<>> THEN <<".">>
    ELSE LET t == StripTrailingSeps(path)
             e == SubSeq(t, LastSep(t) + 1, Len(t))
         IN  IF e = <<>> THEN <<Sep>> ELSE e

(* filepath.Dir of a clean relative path *)
Dir(path) ==
    IF LastSep(path) = 0 THEN <<".">> ELSE SubSeq(path, 1, LastSep(path) - 1)

(* filepath.Join of a clean directory and a clean relative name *)
Join(dir, name) ==
    IF dir = <<".">> THEN name ELSE dir \o <<Sep>> \o name

(* The path's components. *)
RECURSIVE Components(_)
Components(path) ==
    IF LastSep(path) = 0 THEN {path}
    ELSE Components(SubSeq(path, 1, LastSep(path) - 1))
             \cup {SubSeq(path, LastSep(path) + 1, Len(path))}

(***************************************************************************)
(* filepath.Match over patterns of literals, "*", "?" and "[".  "*" and    *)
(* "?" never match a separator.  No pattern here holds "]", so a "["       *)
(* always opens a class that is never closed: Match then returns           *)
(* ErrBadPattern.                                                          *)
(***************************************************************************)
BadPattern(pattern) == \E i \in 1..Len(pattern) : pattern[i] = "["

RECURSIVE GlobMatches(_, _)
GlobMatches(pattern, name) ==
    IF pattern = <<>> THEN name = <<>>
    ELSE IF Head(pattern) = "*"
    THEN \E k \in 0..Len(name) :
            /\ \A j \in 1..k : name[j] # Sep
            /\ GlobMatches(Tail(pattern), SubSeq(name, k + 1, Len(name)))
    ELSE IF Head(pattern) = "?"
    THEN /\ name # <<>>
         /\ Head(name) # Sep
         /\ GlobMatches(Tail(pattern), Tail(name))
    ELSE /\ name # <<>>
         /\ Head(name) = Head(pattern)
         /\ GlobMatches(Tail(pattern), Tail(name))

Match(pattern, name) ==
    IF BadPattern(pattern)
    THEN [matched |-> FALSE, err |-> TRUE]
    ELSE [matched |-> GlobMatches(pattern, name), err |-> FALSE]

(***************************************************************************)
(* utils.IsPathExcluded                                                    *)
(***************************************************************************)
(* line 21: whether a directory pattern's name is found in the path. *)
DirPatternFound(path, dirPattern) == Contains(path, dirPattern)

(* lines 13-24: one turn of the loop over the patterns. *)
PatternExcludes(path, pattern) ==
    LET m == Match(pattern, Base(path))
    IN  \/ (~m.err /\ m.matched)
        \/ /\ HasSuffix(pattern, <<Sep>>)
           /\ DirPatternFound(path, TrimSuffix(pattern, <<Sep>>))

RECURSIVE IsPathExcludedFrom(_, _, _)
IsPathExcludedFrom(path, ignorePatterns, i) ==
    IF i > Len(ignorePatterns) THEN FALSE
    ELSE IF PatternExcludes(path, ignorePatterns[i]) THEN TRUE
    ELSE IsPathExcludedFrom(path, ignorePatterns, i + 1)

IsPathExcluded(path, ignorePatterns) ==
    IsPathExcludedFrom(path, ignorePatterns, 1)

(***************************************************************************)
(* The inputs of the ignore matcher: relative paths of at most two         *)
(* components, and lists of at most MaxPatterns patterns.                  *)
(***************************************************************************)
MaxPatterns == 2

Names == {<<"s">>, <<"a", "s">>, <<"x", ".", "t">>}

RelPaths == Names \cup {Join(d, n) : d \in Names, n \in Names}

PatternSet ==
    {<<"*", ".", "t">>, <<"s", Sep>>, <<"s">>, <<"?", "s">>, <<"[">>}

PatternLists == UNION {[1..n -> PatternSet] : n \in 0..MaxPatterns}

IgnoreIdle ==
    /\ ipath = <<>>
    /\ ipatterns = <<>>
    /\ iresult = "none"

IgnoreInit ==
    /\ ipath \in RelPaths
    /\ ipatterns \in PatternLists
    /\ iresult = "none"

(* One call of IsPathExcluded. *)
CallIsPathExcluded ==
    /\ iresult = "none"
    /\ iresult' = IF IsPathExcluded(ipath, ipatterns) THEN "true" ELSE "false"
    /\ UNCHANGED <<ipath, ipatterns>>
    /\ UNCHANGED <<wvars, svars, evars>>

(***************************************************************************)
(* The file trees of SyncDirectory.  A tree maps each relative path of a   *)
(* small universe to an entry: nothing, a directory, a regular file with   *)
(* its bytes, or a symlink with its target string.                         *)
(***************************************************************************)
MaxRuns == 2

Root == <<".">>
PS == <<"s">>
PSX == <<"s", Sep, "x", ".", "t">>
PX == <<"x", ".", "t">>

(* filepath.Walk's order: a directory, then its entries by name. *)
WalkOrder == <<Root, PS, PSX, PX>>
UPaths == {WalkOrder[i] : i \in 1..Len(WalkOrder)}

Contents == {<<1>>, <<2, 2>>}
Targets == {PX, PSX}

None == [kind |-> "none", data |-> <<>>, target |-> <<>>]
DirE == [kind |-> "dir", data |-> <<>>, target |-> <<>>]
FileE(d) == [kind |-> "file", data |-> d, target |-> <<>>]
LinkE(t) == [kind |-> "link", data |-> <<>>, target |-> t]

Files == {FileE(d) : d \in Contents}
Links == {LinkE(t) : t \in Targets}

(* Trees: an entry has a directory above it. *)
Trees ==
    {t \in [UPaths -> {None, DirE} \cup Files \cup Links] :
        /\ t[Root] \in {None, DirE}
        /\ t[PSX].kind # "dir"
        /\ t[PX].kind # "dir"
        /\ t[PSX] # None => t[PS] = DirE
        /\ (t[PS] # None \/ t[PX] # None) => t[Root] = DirE}

SyncPatternLists ==
    {l \in PatternLists : Len(l) <= 1} \cup {<<<<"*", ".", "t">>, <<"s", Sep>>>>}

NoPath == <<>>

(* Where a symlink at path p with target string t points. *)
ResolveTarget(p, t) == Join(Dir(p), t)

(* The path a system call that follows symlinks ends at: NoPath when the    *)
(* chain leaves the tree or loops.                                          *)
RECURSIVE Follow(_, _, _)
Follow(d, p, fuel) ==
    IF p \notin UPaths THEN NoPath
    ELSE IF d[p].kind # "link" THEN p
    ELSE IF fuel = 0 THEN NoPath
    ELSE Follow(d, ResolveTarget(p, d[p].target), fuel - 1)

(* os.Stat: the kind of what the path resolves to, "none" for an error. *)
StatKind(d, p) ==
    LET r == Follow(d, p, Cardinality(UPaths))
    IN  IF r = NoPath THEN "none" ELSE d[r].kind

(* os.MkdirAll: nothing to do for a directory, an error for another kind;   *)
(* else the parents first, then Mkdir, which fails on a symlink that        *)
(* resolves to nothing.  The destination root's own parent exists.          *)
RECURSIVE MkdirAll(_, _)
MkdirAll(d, p) ==
    LET k == StatKind(d, p)
    IN  IF k = "dir" THEN [ok |-> TRUE, fs |-> d]
        ELSE IF k = "file" THEN [ok |-> FALSE, fs |-> d]
        ELSE LET up == IF p = Root THEN [ok |-> TRUE, fs |-> d]
                       ELSE MkdirAll(d, Dir(p))
             IN  IF ~up.ok THEN up
                 ELSE IF up.fs[p].kind = "none"
                 THEN [ok |-> TRUE, fs |-> [up.fs EXCEPT ![p] = DirE]]
                 ELSE [ok |-> FALSE, fs |-> up.fs]

(* os.Remove, its error dropped: a file, a symlink or an empty directory    *)
(* goes; the link itself, not what it points to.                            *)
Remove(d, p) ==
    IF d[p].kind \in {"file", "link"}
       \/ (d[p].kind = "dir" /\ \A q \in UPaths : q # p /\ Dir(q) = p => d[q] = None)
    THEN [d EXCEPT ![p] = None]
    ELSE d

(* os.Symlink: fails when the path exists. *)
Symlink(d, t, p) ==
    IF d[p].kind = "none" /\ StatKind(d, Dir(p)) = "dir"
    THEN [ok |-> TRUE, fs |-> [d EXCEPT ![p] = LinkE(t)]]
    ELSE [ok |-> FALSE, fs |-> d]

(* utils.CopyFile: MkdirAll of the parent, then os.Create, which follows a  *)
(* symlink at the destination path and truncates or creates what it points  *)
(* to, then io.Copy.  at is the path the bytes went to.                     *)
CopyFile(d, data, p) ==
    LET m == MkdirAll(d, Dir(p))
        r == Follow(m.fs, p, Cardinality(UPaths))
    IN  IF ~m.ok THEN [ok |-> FALSE, fs |-> m.fs, at |-> NoPath]
        ELSE IF r = NoPath \/ m.fs[r].kind = "dir"
                \/ StatKind(m.fs, Dir(r)) # "dir"
        THEN [ok |-> FALSE, fs |-> m.fs, at |-> NoPath]
        ELSE [ok |-> TRUE, fs |-> [m.fs EXCEPT ![r] = FileE(data)], at |-> r]

(***************************************************************************)
(* Permission bits, nine of them, as a number.                             *)
(***************************************************************************)
Octal(u, g, o) == u * 64 + g * 8 + o

(* a &^ b *)
RECURSIVE AndNot(_, _)
AndNot(a, b) ==
    IF a = 0 THEN 0
    ELSE (a % 2) * (1 - (b % 2)) + 2 * AndNot(a \div 2, b \div 2)

NoPerm == Octal(0, 0, 0)

(* os.Create opens with mode 0666. *)
CreatePerm == Octal(6, 6, 6)

(* The 0755 given to os.MkdirAll for a parent directory. *)
ParentPerm == Octal(7, 5, 5)

Umasks == {Octal(0, 0, 0), Octal(0, 2, 2)}

DefaultModes == [dir |-> Octal(7, 5, 5), file |-> Octal(6, 4, 4)]

SourceModes == {DefaultModes, [dir |-> Octal(7, 0, 0), file |-> Octal(6, 0, 0)]}

(* The bits of a tree whose directories have bits d and whose files f. *)
PermsOf(t, d, f) ==
    [p \in UPaths |-> IF t[p].kind = "dir" THEN d
                      ELSE IF t[p].kind = "file" THEN f
                      ELSE NoPerm]

(* The destination's bits after a step that took the tree from before to   *)
(* after: an entry that was there keeps its bits, a directory made by      *)
(* MkdirAll(_, dirPerm) gets dirPerm less the umask, a file made by        *)
(* os.Create gets 0666 less the umask.                                     *)
PermAfter(before, after, perms, dirPerm) ==
    [p \in UPaths |->
        IF after[p].kind \notin {"dir", "file"} THEN NoPerm
        ELSE IF before[p].kind = after[p].kind THEN perms[p]
        ELSE IF after[p].kind = "dir" THEN AndNot(dirPerm, umask)
        ELSE AndNot(CreatePerm, umask)]

(* The source entries in the order the walk visits them. *)
Visit == SelectSeq(WalkOrder, LAMBDA p : src[p] # None)

RECURSIVE SumSizes(_, _)
SumSizes(t, ps) ==
    IF ps = {} THEN 0
    ELSE LET p == CHOOSE q \in ps : TRUE
         IN  (IF t[p].kind = "file" THEN Len(t[p].data) ELSE 0)
                 + SumSizes(t, ps \ {p})

(* lines 62-70: the patterns in order, each matched against the whole       *)
(* relative path: "error", "skip" or "apply".                               *)
RECURSIVE IgnoreCheck(_, _)
IgnoreCheck(rel, i) ==
    IF i > Len(patterns) THEN "apply"
    ELSE LET m == Match(patterns[i], rel)
         IN  IF m.err THEN "error"
             ELSE IF m.matched THEN "skip"
             ELSE IgnoreCheck(rel, i + 1)

Changed(d, e) == {p \in UPaths : d[p] # e[p]}

SyncIdle ==
    /\ src = [p \in UPaths |-> None]
    /\ dst = [p \in UPaths |-> None]
    /\ patterns = <<>>
    /\ spc = "idle"
    /\ idx = 0
    /\ total = 0
    /\ completed = 0
    /\ run = 0
    /\ written = 0
    /\ touched = {}
    /\ dstFirst = [p \in UPaths |-> None]
    /\ failed = FALSE
    /\ sperm = [p \in UPaths |-> NoPerm]
    /\ dperm = [p \in UPaths |-> NoPerm]
    /\ umask = NoPerm

(* NewManager and the first call: any source tree under an existing root,   *)
(* any destination tree, left by earlier runs or not yet there.             *)
SyncInit ==
    /\ src \in {t \in Trees : t[Root] = DirE}
    /\ dst \in Trees
    /\ patterns \in SyncPatternLists
    /\ spc = "start"
    /\ idx = 0
    /\ total = 0
    /\ completed = 0
    /\ run = 1
    /\ written = 0
    /\ touched = {}
    /\ dstFirst = dst
    /\ failed = FALSE
    /\ \E m \in SourceModes : sperm = PermsOf(src, m.dir, m.file)
    /\ dperm = PermsOf(dst, DefaultModes.dir, DefaultModes.file)
    /\ umask \in Umasks

(* lines 33-47: the sizing walk and NewTracker. *)
SizingPass ==
    /\ spc = "start"
    /\ total' = SumSizes(src, UPaths)
    /\ completed' = 0
    /\ idx' = 1
    /\ spc' = "apply"
    /\ UNCHANGED <<src, dst, patterns, run, written, touched, dstFirst,
                   failed>>
    /\ UNCHANGED <<sperm, dperm, umask>>
    /\ UNCHANGED <<wvars, ivars, evars>>

Visiting == spc = "apply" /\ idx <= Len(Visit)

(* The walk function returns a non-nil error that is not SkipDir:          *)
(* filepath.Walk stops and SyncDirectory returns the error.                *)
WalkErr_Ignored == "apply"

WalkErr == "err"

(* lines 63-66: a pattern is malformed; the walk ends with its error. *)
ApplyPatternError ==
    /\ Visiting
    /\ IgnoreCheck(Visit[idx], 1) = "error"
    /\ spc' = "err"
    /\ UNCHANGED <<src, dst, patterns, idx, total, completed, run, written,
                   touched, dstFirst, failed>>
    /\ UNCHANGED <<sperm, dperm, umask>>
    /\ UNCHANGED <<wvars, ivars, evars>>

(* lines 67-69: a pattern matches; the entry is passed over. *)
ApplySkip ==
    /\ Visiting
    /\ IgnoreCheck(Visit[idx], 1) = "skip"
    /\ idx' = idx + 1
    /\ UNCHANGED <<src, dst, patterns, spc, total, completed, run, written,
                   touched, dstFirst, failed>>
    /\ UNCHANGED <<sperm, dperm, umask>>
    /\ UNCHANGED <<wvars, ivars, evars>>

(* lines 78-83: a directory. *)
ApplyDir ==
    /\ Visiting
    /\ IgnoreCheck(Visit[idx], 1) = "apply"
    /\ src[Visit[idx]].kind = "dir"
    /\ LET r == MkdirAll(dst, Visit[idx])
       IN  /\ dst' = r.fs
           /\ dperm' = PermAfter(dst, r.fs, dperm, sperm[Visit[idx]])
           /\ touched' = touched \cup Changed(dst, r.fs)
           /\ failed' = ~r.ok
           /\ IF r.ok THEN idx' = idx + 1 /\ spc' = spc
                      ELSE idx' = idx /\ spc' = WalkErr
    /\ UNCHANGED <<src, patterns, total, completed, run, written, dstFirst>>
    /\ UNCHANGED <<sperm, umask>>
    /\ UNCHANGED <<wvars, ivars, evars>>

(* lines 85-104: a symlink. *)
ApplySymlink ==
    /\ Visiting
    /\ IgnoreCheck(Visit[idx], 1) = "apply"
    /\ src[Visit[idx]].kind = "link"
    /\ LET p == Visit[idx]
           m == MkdirAll(Remove(dst, p), Dir(p))
           r == IF m.ok THEN Symlink(m.fs, src[p].target, p) ELSE m
       IN  /\ dst' = r.fs
           /\ dperm' = PermAfter(dst, r.fs, dperm, ParentPerm)
           /\ touched' = touched \cup Changed(dst, r.fs)
                             \cup (IF r.ok THEN {p} ELSE {})
           /\ failed' = ~r.ok
           /\ IF r.ok THEN idx' = idx + 1 /\ spc' = spc
                      ELSE idx' = idx /\ spc' = WalkErr
    /\ UNCHANGED <<src, patterns, total, completed, run, written, dstFirst>>
    /\ UNCHANGED <<sperm, umask>>
    /\ UNCHANGED <<wvars, ivars, evars>>

(* lines 106-126, cryptoManager nil: a regular file. *)
ApplyFile ==
    /\ Visiting
    /\ IgnoreCheck(Visit[idx], 1) = "apply"
    /\ src[Visit[idx]].kind = "file"
    /\ LET p == Visit[idx]
           m == MkdirAll(dst, Dir(p))
           r == IF m.ok THEN CopyFile(m.fs, src[p].data, p)
                        ELSE [ok |-> FALSE, fs |-> m.fs, at |-> NoPath]
       IN  /\ dst' = r.fs
           /\ dperm' = PermAfter(dst, r.fs, dperm, ParentPerm)
           /\ touched' = touched \cup Changed(dst, r.fs)
                             \cup (IF r.ok THEN {p, r.at} ELSE {})
           /\ IF r.ok
              THEN /\ written' = written + Len(src[p].data)
                   /\ completed' = completed + Len(src[p].data)
                   /\ idx' = idx + 1
                   /\ spc' = spc
              ELSE /\ written' = written
                   /\ completed' = completed
                   /\ idx' = idx
                   /\ spc' = WalkErr
           /\ failed' = ~r.ok
    /\ UNCHANGED <<src, patterns, total, run, dstFirst>>
    /\ UNCHANGED <<sperm, umask>>
    /\ UNCHANGED <<wvars, ivars, evars>>

(* The apply walk visited every entry: SyncDirectory returns nil. *)
WalkDone ==
    /\ spc = "apply"
    /\ idx > Len(Visit)
    /\ spc' = "ok"
    /\ UNCHANGED <<src, dst, patterns, idx, total, completed, run, written,
                   touched, dstFirst, failed>>
    /\ UNCHANGED <<sperm, dperm, umask>>
    /\ UNCHANGED <<wvars, ivars, evars>>

(* SyncDirectory is called again, on the same source and destination. *)
SyncAgain ==
    /\ spc = "ok"
    /\ run < MaxRuns
    /\ run' = run + 1
    /\ spc' = "start"
    /\ idx' = 0
    /\ total' = 0
    /\ completed' = 0
    /\ written' = 0
    /\ touched' = {}
    /\ dstFirst' = dst
    /\ failed' = FALSE
    /\ UNCHANGED <<src, dst, patterns>>
    /\ UNCHANGED <<sperm, dperm, umask>>
    /\ UNCHANGED <<wvars, ivars, evars>>

SyncNext ==
    \/ SizingPass
    \/ ApplyPatternError
    \/ ApplySkip
    \/ ApplyDir
    \/ ApplySymlink
    \/ ApplyFile
    \/ WalkDone
    \/ SyncAgain

(***************************************************************************)
(* checksum.Calculator                                                     *)
(***************************************************************************)
MaxFileLen == 4
MaxBlockSize == 4
MaxBlockNum == 5

(* os.File.Read hands at most maxRW bytes (1 << 30 in internal/poll) to    *)
(* one read; the model's sizes are scaled so that a buffer can exceed it.  *)
MaxRW == 3

Bytes == {0, 1}

FileContents == UNION {[1..n -> Bytes] : n \in 0..MaxFileLen}

BlockSizes == (0 - 1)..MaxBlockSize

Min(a, b) == IF a <= b THEN a ELSE b

(* sha256 of one chunk, from a fresh hash: a digest determined by the      *)
(* chunk's bytes alone.                                                    *)
Sha256(chunk) == [sha256 |-> chunk]

(* file.Read(buffer): how many bytes one call returns, 0 with io.EOF at    *)
(* the end of the file, 0 without an error for an empty buffer.            *)
ReadLen(bufLen, remaining) == Min(Min(bufLen, MaxRW), remaining)

ChecksumIdle ==
    /\ cfile = <<>>
    /\ cblockSize = 1
    /\ cpc = "idle"
    /\ cpos = 0
    /\ blockNum = 0
    /\ checksums = <<>>

ChecksumInit ==
    /\ cfile \in FileContents
    /\ cblockSize \in BlockSizes
    /\ cpc = "idle"
    /\ cpos = 0
    /\ blockNum = 0
    /\ checksums = <<>>

(* NewCalculator: stores the block size as given. *)
NewCalculator ==
    /\ cpc = "idle"
    /\ cpc' = "new"
    /\ UNCHANGED <<cfile, cblockSize, cpos, blockNum, checksums>>
    /\ UNCHANGED <<wvars, svars, ivars, rvars, mvars>>

(* lines 39-48: open the file, make the map and the buffer; make panics    *)
(* for a negative length.                                                  *)
CalcOpen ==
    /\ cpc = "new"
    /\ cpc' = IF cblockSize < 0 THEN "panic" ELSE "loop"
    /\ cpos' = 0
    /\ blockNum' = 0
    /\ checksums' = <<>>
    /\ UNCHANGED <<cfile, cblockSize>>
    /\ UNCHANGED <<wvars, svars, ivars, rvars, mvars>>

(* lines 49-59 and the loop's blockNum++: one read that is not io.EOF. *)
CalcReadBlock ==
    /\ cpc = "loop"
    /\ cblockSize = 0 \/ cpos < Len(cfile)
    /\ blockNum < MaxBlockNum
    /\ LET n == ReadLen(cblockSize, Len(cfile) - cpos)
           chunk == SubSeq(cfile, cpos + 1, cpos + n)
       IN  /\ checksums' = [k \in DOMAIN checksums \cup {blockNum} |->
                               IF k = blockNum THEN Sha256(chunk)
                               ELSE checksums[k]]
           /\ cpos' = cpos + n
    /\ blockNum' = blockNum + 1
    /\ UNCHANGED <<cfile, cblockSize, cpc>>
    /\ UNCHANGED <<wvars, svars, ivars, rvars, mvars>>

(* lines 50-52, 62: the read returns io.EOF; the map is returned. *)
CalcReadEOF ==
    /\ cpc = "loop"
    /\ cblockSize > 0
    /\ cpos = Len(cfile)
    /\ cpc' = "done"
    /\ UNCHANGED <<cfile, cblockSize, cpos, blockNum, checksums>>
    /\ UNCHANGED <<wvars, svars, ivars, rvars, mvars>>

ChecksumNext ==
    \/ NewCalculator
    \/ CalcOpen
    \/ CalcReadBlock
    \/ CalcReadEOF

(***************************************************************************)
(* network.RemoteSync.  The remote host is a map from absolute paths to    *)
(* the kind of entry there; the SFTP server resolves a relative path       *)
(* against the remote user's home directory.                               *)
(***************************************************************************)
Home == <<Sep, "h">>

Bases == {<<"b">>, <<Sep, "b">>}

IsAbs(p) == p # <<>> /\ Head(p) = Sep

(* filepath.Join(r.remoteBase, relPath) *)
RemotePathOf(base, rel) == IF rel = Root THEN base ELSE base \o <<Sep>> \o rel

(* The absolute path the server takes a path for. *)
Resolve(p) ==
    IF IsAbs(p) THEN p ELSE IF p = Root THEN Home ELSE Home \o <<Sep>> \o p

ParentAbs(a) ==
    IF LastSep(a) <= 1 THEN <<Sep>> ELSE SubSeq(a, 1, LastSep(a) - 1)

RPaths ==
    {<<Sep>>, Home}
        \cup {Resolve(RemotePathOf(b, r)) : b \in Bases, r \in UPaths}

RemoteDirs ==
    {Resolve(RemotePathOf(b, r)) : b \in Bases, r \in {Root, PS}}

(* filepath.Clean of a path without empty, "." or ".." elements. *)
Clean(p) ==
    IF p = <<>> THEN <<".">>
    ELSE LET t == StripTrailingSeps(p)
         IN  IF t = <<>> THEN <<Sep>> ELSE t

(* strings.Split(s, "/") *)
RECURSIVE Split(_)
Split(s) ==
    LET at == {i \in 1..Len(s) : s[i] = Sep}
    IN  IF at = {} THEN <<s>>
        ELSE LET i == CHOOSE k \in at : \A j \in at : k <= j
             IN  <<SubSeq(s, 1, i - 1)>> \o Split(SubSeq(s, i + 1, Len(s)))

(* filepath.Join(current, component): empty elements are ignored. *)
JoinElem(current, component) ==
    IF current = <<>> THEN component ELSE current \o <<Sep>> \o component

(* client.Mkdir, its error dropped. *)
SftpMkdir(fs, p) ==
    LET a == Resolve(p)
    IN  IF a \in RPaths /\ fs[a] = "none" /\ fs[ParentAbs(a)] = "dir"
        THEN [fs EXCEPT ![a] = "dir"]
        ELSE fs

(* client.Remove, its error dropped. *)
SftpRemove(fs, p) ==
    LET a == Resolve(p)
    IN  IF fs[a] \in {"file", "link"}
           \/ (fs[a] = "dir" /\ \A q \in RPaths :
                                   (q # a /\ ParentAbs(q) = a) => fs[q] = "none")
        THEN [fs EXCEPT ![a] = "none"]
        ELSE fs

(* client.Symlink *)
SftpSymlink(fs, p) ==
    LET a == Resolve(p)
    IN  IF fs[a] = "none" /\ fs[ParentAbs(a)] = "dir"
        THEN [ok |-> TRUE, fs |-> [fs EXCEPT ![a] = "link"]]
        ELSE [ok |-> FALSE, fs |-> fs]

(* client.Create: needs the parent directory. *)
SftpCreate(fs, p) ==
    LET a == Resolve(p)
    IN  IF fs[a] \in {"none", "file"} /\ fs[ParentAbs(a)] = "dir"
        THEN [ok |-> TRUE, fs |-> [fs EXCEPT ![a] = "file"]]
        ELSE [ok |-> FALSE, fs |-> fs]

(* lines 233-239: the loop over the components. *)
RECURSIVE MkdirEach(_, _, _, _)
MkdirEach(fs, components, current, made) ==
    IF components = <<>> THEN [fs |-> fs, made |-> made]
    ELSE IF Head(components) = <<>>
    THEN MkdirEach(fs, Tail(components), current, made)
    ELSE LET c == JoinElem(current, Head(components))
         IN  MkdirEach(SftpMkdir(fs, c), Tail(components), c, made \cup {c})

(* RemoteSync.mkdirAll *)
RemoteMkdirAll(fs, path) ==
    IF path = <<>> THEN [fs |-> fs, made |-> {}]
    ELSE MkdirEach(fs, Split(Clean(path)), <<>>, {})

NoMk == [target |-> <<>>, made |-> {}]

RVisit == SelectSeq(WalkOrder, LAMBDA p : rlocal[p] # None)

RemoteIdle ==
    /\ remoteBase = <<"b">>
    /\ rlocal = [p \in UPaths |-> None]
    /\ rfs = [a \in RPaths |-> "none"]
    /\ rpc = "idle"
    /\ ridx = 0
    /\ lastMk = NoMk
    /\ noParent = FALSE

(* NewRemoteSync and the call of SyncToRemote: any local tree, either      *)
(* base, and a remote host where some of the directories may exist.        *)
RemoteInit ==
    /\ remoteBase \in Bases
    /\ rlocal \in {t \in Trees : t[Root] = DirE}
    /\ \E have \in SUBSET RemoteDirs :
           /\ \A a \in have : ParentAbs(a) \in have \cup {<<Sep>>, Home}
           /\ rfs = [a \in RPaths |->
                        IF a \in have \cup {<<Sep>>, Home} THEN "dir"
                        ELSE "none"]
    /\ rpc = "walk"
    /\ ridx = 1
    /\ lastMk = NoMk
    /\ noParent = FALSE

RVisiting == rpc = "walk" /\ ridx <= Len(RVisit)

(* lines 260-262: a directory. *)
RemoteVisitDir ==
    /\ RVisiting
    /\ rlocal[RVisit[ridx]].kind = "dir"
    /\ LET rp == RemotePathOf(remoteBase, RVisit[ridx])
           m == RemoteMkdirAll(rfs, rp)
       IN  /\ rfs' = m.fs
           /\ lastMk' = [target |-> rp, made |-> m.made]
    /\ ridx' = ridx + 1
    /\ UNCHANGED <<remoteBase, rlocal, rpc, noParent>>
    /\ UNCHANGED <<wvars, svars, ivars, cvars, mvars>>

(* lines 263-276: a symlink. *)
RemoteVisitSymlink ==
    /\ RVisiting
    /\ rlocal[RVisit[ridx]].kind = "link"
    /\ LET rp == RemotePathOf(remoteBase, RVisit[ridx])
           r == SftpSymlink(SftpRemove(rfs, rp), rp)
       IN  /\ rfs' = r.fs
           /\ IF r.ok THEN ridx' = ridx + 1 /\ rpc' = rpc
                      ELSE ridx' = ridx /\ rpc' = "err"
    /\ UNCHANGED <<remoteBase, rlocal, lastMk, noParent>>
    /\ UNCHANGED <<wvars, svars, ivars, cvars, mvars>>

(* lines 277-281 and CopyToRemote: a regular file. *)
RemoteVisitFile ==
    /\ RVisiting
    /\ rlocal[RVisit[ridx]].kind = "file"
    /\ LET rp == RemotePathOf(remoteBase, RVisit[ridx])
           m == RemoteMkdirAll(rfs, Dir(rp))
           c == SftpCreate(m.fs, rp)
       IN  /\ rfs' = c.fs
           /\ lastMk' = [target |-> Dir(rp), made |-> m.made]
           /\ noParent' = (noParent \/ (~c.ok /\ m.fs[ParentAbs(Resolve(rp))] # "dir"))
           /\ IF c.ok THEN ridx' = ridx + 1 /\ rpc' = rpc
                      ELSE ridx' = ridx /\ rpc' = "err"
    /\ UNCHANGED <<remoteBase, rlocal>>
    /\ UNCHANGED <<wvars, svars, ivars, cvars, mvars>>

(* The walk visited every entry: SyncToRemote returns nil. *)
RemoteWalkDone ==
    /\ rpc = "walk"
    /\ ridx > Len(RVisit)
    /\ rpc' = "ok"
    /\ UNCHANGED <<remoteBase, rlocal, rfs, ridx, lastMk, noParent>>
    /\ UNCHANGED <<wvars, svars, ivars, cvars, mvars>>

RemoteNext ==
    \/ RemoteVisitDir
    \/ RemoteVisitSymlink
    \/ RemoteVisitFile
    \/ RemoteWalkDone

(***************************************************************************)
(* One Watcher whose Watch and Close are called any number of times.  Each *)
(* processEvents goroutine is followed through what it holds in its own    *)
(* eventMap; its timer is left out: a loop with pending events emits them  *)
(* at some time.                                                           *)
(***************************************************************************)
MaxWatchCalls == 2

Running == {i \in 1..Len(loops) : loops[i].running}

(* The path's burst is under way: a running loop holds it pending. *)
InBurst(p) == \E i \in Running : p \in loops[i].pending

MultiIdle ==
    /\ loops = <<>>
    /\ mclosed = FALSE
    /\ mpanic = FALSE
    /\ lastWatch = "none"
    /\ memits = [p \in WPaths |-> 0]

(* Watch, lines 42-64: watcher.Add fails on a closed fsnotify watcher and  *)
(* may fail on an open one; if it succeeds a new goroutine runs            *)
(* processEvents.                                                          *)
WatchCall(addOk) ==
    /\ ~mpanic
    /\ Len(loops) < MaxWatchCalls
    /\ IF addOk /\ ~mclosed
       THEN /\ loops' = Append(loops, [running |-> TRUE, pending |-> {}])
            /\ lastWatch' = "ok"
       ELSE /\ loops' = loops
            /\ lastWatch' = "err"
    /\ UNCHANGED <<mclosed, mpanic, memits>>
    /\ UNCHANGED <<wvars, svars, ivars, cvars, rvars>>

(* Close, lines 110-113: close(w.done) panics when done is closed. *)
CloseCall ==
    /\ ~mpanic
    /\ IF mclosed THEN mpanic' = TRUE /\ mclosed' = mclosed
                  ELSE mclosed' = TRUE /\ mpanic' = mpanic
    /\ UNCHANGED <<loops, lastWatch, memits>>
    /\ UNCHANGED <<wvars, svars, ivars, cvars, rvars>>

(* lines 73-82: one of the running loops receives the raw notification. *)
MLoopRecv(i, p) ==
    /\ ~mpanic
    /\ ~mclosed
    /\ i \in Running
    /\ memits' = [memits EXCEPT ![p] = IF InBurst(p) THEN @ ELSE 0]
    /\ loops' = [loops EXCEPT ![i].pending = @ \cup {p}]
    /\ UNCHANGED <<mclosed, mpanic, lastWatch>>
    /\ UNCHANGED <<wvars, svars, ivars, cvars, rvars>>

(* lines 90-94: a loop's timer expired; it sends what its map holds. *)
MLoopEmit(i) ==
    /\ ~mpanic
    /\ i \in Running
    /\ loops[i].pending # {}
    /\ memits' = [p \in WPaths |->
                     IF p \in loops[i].pending /\ memits[p] < 2
                     THEN memits[p] + 1 ELSE memits[p]]
    /\ loops' = [loops EXCEPT ![i].pending = {}]
    /\ UNCHANGED <<mclosed, mpanic, lastWatch>>
    /\ UNCHANGED <<wvars, svars, ivars, cvars, rvars>>

(* lines 96-97: a loop sees done closed and returns. *)
MLoopDone(i) ==
    /\ ~mpanic
    /\ mclosed
    /\ i \in Running
    /\ loops' = [loops EXCEPT ![i].running = FALSE]
    /\ UNCHANGED <<mclosed, mpanic, lastWatch, memits>>
    /\ UNCHANGED <<wvars, svars, ivars, cvars, rvars>>

MultiNext ==
    \/ \E addOk \in BOOLEAN : WatchCall(addOk)
    \/ CloseCall
    \/ \E i \in 1..MaxWatchCalls, p \in WPaths : MLoopRecv(i, p)
    \/ \E i \in 1..MaxWatchCalls : MLoopEmit(i)
    \/ \E i \in 1..MaxWatchCalls : MLoopDone(i)

Init ==
    NewWatcher /\ IgnoreIdle /\ SyncIdle /\ ChecksumIdle /\ RemoteIdle
        /\ MultiIdle

Next ==
    \/ Tick
    \/ TimerFire
    \/ Watch
    \/ LoopNewTimer
    \/ LoopStopTimer
    \/ \E p \in WPaths, op \in Ops : LoopRecvEvent(p, op)
    \/ \E e \in Errs : LoopRecvErr(e)
    \/ ConsumerRecvErr
    \/ LoopTimerC
    \/ \E p \in WPaths : ConsumerRecvEvent(p)
    \/ LoopDone
    \/ LoopChanClosed
    \/ Close
    \/ ConsumerStop

Spec == Init /\ [][Next]_vars

(***************************************************************************)
(* The scheduler runs the loop goroutine whenever it can take a step, the  *)
(* runtime fires expired timers, and a consumer that still reads receives  *)
(* what is offered to it.                                                  *)
(***************************************************************************)
FairSpec ==
    /\ Spec
    /\ WF_vars(LoopStep)
    /\ WF_vars(LoopDone)
    /\ WF_vars(TimerFire)
    /\ WF_vars(ConsumerRecvErr)
    /\ WF_vars(\E p \in WPaths : ConsumerRecvEvent(p))

WatcherIdle == NewWatcher /\ debounceMs = 1

IgnoreNext == CallIsPathExcluded

IgnoreSpecInit ==
    IgnoreInit /\ WatcherIdle /\ SyncIdle /\ ChecksumIdle /\ RemoteIdle
        /\ MultiIdle

IgnoreSpec == IgnoreSpecInit /\ [][IgnoreNext]_vars

SyncSpecInit ==
    SyncInit /\ WatcherIdle /\ IgnoreIdle /\ ChecksumIdle /\ RemoteIdle
        /\ MultiIdle

SyncSpec == SyncSpecInit /\ [][SyncNext]_vars

ChecksumSpecInit ==
    ChecksumInit /\ WatcherIdle /\ IgnoreIdle /\ SyncIdle /\ RemoteIdle
        /\ MultiIdle

ChecksumSpec == ChecksumSpecInit /\ [][ChecksumNext]_vars

RemoteSpecInit ==
    RemoteInit /\ WatcherIdle /\ IgnoreIdle /\ SyncIdle /\ ChecksumIdle
        /\ MultiIdle

RemoteSpec == RemoteSpecInit /\ [][RemoteNext]_vars

MultiSpecInit ==
    MultiIdle /\ WatcherIdle /\ IgnoreIdle /\ SyncIdle /\ ChecksumIdle
        /\ RemoteIdle

MultiSpec == MultiSpecInit /\ [][MultiNext]_vars

(***************************************************************************)
(* C1. Debounce coalescing: within a burst of raw notifications for one    *)
(* path, each received less than debounceMs after the previous one, the    *)
(* watcher emits one ChangeEvent for that path and no second one.          *)
(***************************************************************************)
C1_OneEventPerBurst == \A p \in WPaths : burstEmits[p] <= 1

(***************************************************************************)
(* C2. Debounce timing: no ChangeEvent is delivered earlier than           *)
(* debounceMs after the most recent raw notification the loop received.    *)
(***************************************************************************)
C2_NoEarlyDelivery == ~lastOut.early

(***************************************************************************)
(* C3. Close terminates the loop: once Close was called on a watcher whose *)
(* loop was started, the loop eventually terminates, whatever it was doing.*)
(***************************************************************************)
C3_CloseTerminates == (closed /\ pc # "idle") ~> (pc = "done")

(***************************************************************************)
(* C4. Close discards pending events: no ChangeEvent is delivered on the   *)
(* events channel after Close was called.                                  *)
(***************************************************************************)
C4_NoDeliveryAfterClose == ~lastOut.afterClose

(***************************************************************************)
(* C5. Watcher errors never stop watching: the loop ends only after Close; *)
(* while an error is being forwarded nothing is delivered on the events    *)
(* channel and no pending event is lost; and, the consumer receiving the   *)
(* error, the loop selects again unless the watcher is closed.             *)
(***************************************************************************)
C5_ErrorsKeepWatching ==
    /\ [](pc = "done" => closed)
    /\ [][pc = "sendErr" =>
            /\ pc' \in {"sendErr", "select"}
            /\ eventMap' = eventMap
            /\ lastOut' = lastOut]_vars
    /\ (pc = "sendErr" /\ ~closed) ~> (pc = "select" \/ closed)

(* After an error was forwarded, and with the watcher open, a raw          *)
(* notification received later than that error has been emitted.           *)
C5_Witness ==
    /\ errSeen
    /\ ~closed
    /\ lastOut.delivered
    /\ lastOut.afterErr
    /\ ~lastOut.afterClose

(* Exclusion as the ignore matcher is specified: some pattern glob-matches  *)
(* the base name, or ends with the separator and names a whole component   *)
(* of the path.                                                            *)
Excluded(path, pats) ==
    \E i \in 1..Len(pats) :
        \/ GlobMatches(pats[i], Base(path))
        \/ /\ HasSuffix(pats[i], <<Sep>>)
           /\ TrimSuffix(pats[i], <<Sep>>) \in Components(path)

(* The total as specified: the sizes of the regular files that are not     *)
(* excluded.                                                                *)
ExpectedTotal ==
    SumSizes(src, {p \in UPaths : ~Excluded(p, patterns)})

(***************************************************************************)
(* C6. Sync idempotence: a second SyncDirectory on an unchanged source     *)
(* leaves the destination as the first left it and writes no file bytes.   *)
(***************************************************************************)
C6_SecondRunWritesNothing ==
    (run = 2 /\ spc = "ok") => (written = 0 /\ dst = dstFirst)

(***************************************************************************)
(* C7. Mirror result: after a successful SyncDirectory without ignore      *)
(* patterns, the destination holds, for every source entry, an entry of    *)
(* the same kind at the same path, with the same bytes or target string.   *)
(***************************************************************************)
C7_MirrorResult ==
    (spc = "ok" /\ patterns = <<>>) =>
        \A p \in UPaths : src[p] # None => dst[p] = src[p]

(***************************************************************************)
(* C8. Progress total matches the work: the tracker's total is the size of *)
(* the regular files that are not excluded; the completed count never      *)
(* exceeds it and equals it when SyncDirectory returns success.            *)
(***************************************************************************)
C8_ProgressMatchesTotal ==
    /\ spc \in {"apply", "ok", "err"} =>
           (total = ExpectedTotal /\ completed <= total)
    /\ spc = "ok" => completed = total

(***************************************************************************)
(* C9. Excluded entries are never synchronized: SyncDirectory creates or   *)
(* writes nothing at the destination path of a source entry the ignore     *)
(* matcher excludes.                                                       *)
(***************************************************************************)
C9_ExcludedNeverSynced ==
    \A p \in UPaths :
        (src[p] # None /\ Excluded(p, patterns)) => p \notin touched

(***************************************************************************)
(* C10. IgnoreMatcher result: IsPathExcluded returns true exactly when     *)
(* some pattern glob-matches the path's base name, or ends with the        *)
(* separator and names a whole component of the path.                      *)
(***************************************************************************)
C10_ExcludedIffComponent ==
    iresult # "none" => (iresult = "true" <=> Excluded(ipath, ipatterns))

(***************************************************************************)
(* C11. Malformed ignore patterns are never fatal: SyncDirectory never     *)
(* returns an error because a pattern of the ignore list is malformed.     *)
(***************************************************************************)
C11_BadPatternNotFatal ==
    spc = "err" => IgnoreCheck(Visit[idx], 1) # "error"

C13_PermissionBitsPreserved ==
    spc = "ok" =>
        \A p \in UPaths :
            (/\ src[p].kind \in {"dir", "file"}
             /\ dst[p].kind = src[p].kind
             /\ IgnoreCheck(p, 1) = "apply") => dperm[p] = sperm[p]

(***************************************************************************)
(* C14. Block checksum layout: for a block size B > 0 and a file of        *)
(* length L, the returned map has exactly the keys 0 .. ceil(L/B)-1 and    *)
(* entry i is the digest of the bytes [i*B, min((i+1)*B, L)) alone; an     *)
(* empty file gives the empty map.                                         *)
(***************************************************************************)
C14_BlockLayout ==
    (cpc = "done" /\ cblockSize > 0) =>
        LET L == Len(cfile)
            B == cblockSize
            n == (L + B - 1) \div B
        IN  /\ DOMAIN checksums = 0..(n - 1)
            /\ \A i \in 0..(n - 1) :
                   checksums[i] =
                       Sha256(SubSeq(cfile, i * B + 1, Min((i + 1) * B, L)))

(***************************************************************************)
(* C15. A non-positive block size is rejected up front: no calculator is   *)
(* constructed, and no checksum loop is run, with a block size <= 0.       *)
(***************************************************************************)
C15_BlockSizeRejected ==
    cpc \in {"new", "loop", "done", "panic"} => cblockSize > 0

(* The paths that name a directory on the way to path t, t included, read  *)
(* as t is read: absolute if t is absolute, relative if it is relative.    *)
PathPrefixes(t) ==
    {SubSeq(t, 1, i) : i \in {k \in 1..Len(t) :
                                 /\ t[k] # Sep
                                 /\ (k = Len(t) \/ t[k + 1] = Sep)}}

(***************************************************************************)
(* C17. Remote parent directories: the paths mkdirAll gives to Mkdir are   *)
(* exactly its argument and its ancestors, absolute or relative as the     *)
(* argument is, and no remote file creation fails for want of its parent   *)
(* directory.                                                              *)
(***************************************************************************)
C17_RemoteParents ==
    /\ lastMk.made = PathPrefixes(lastMk.target)
    /\ ~noParent

(***************************************************************************)
(* C16. At most one coalescing loop per watcher: whatever calls of Watch   *)
(* and Close are made, at most one processEvents loop runs at a time, and  *)
(* the raw notifications of one burst for a path yield one emitted event.  *)
(***************************************************************************)
C16_OneLoopPerWatcher ==
    /\ Cardinality(Running) <= 1
    /\ \A p \in WPaths : memits[p] <= 1

====
